---------------------------- MODULE Spec2Model ----------------------------
(***************************************************************************)
(* Model of the real-time configuration drift monitor (src/main.py).       *)
(*                                                                         *)
(* Threads: the main thread (main: validate, set up, start, idle, stop,    *)
(* join), the observer's single dispatch thread (on_modified and           *)
(* check_config_drift, one event at a time, under the observer's lock),    *)
(* and the environment (edits of live and baseline files, notifications    *)
(* put on the observer's event queue by the directory watches).            *)
(***************************************************************************)
EXTENDS Integers, Sequences, FiniteSets, TLC

(***************************************************************************)
(* Bounds of the model.                                                    *)
(***************************************************************************)
\* notifications the watches put on the event queue in one run
MaxNotifs == 2
\* external edits of live and baseline files in one run
MaxEdits == 1
\* length of the sequences compared by the comparator specification
MaxLen == 3

(***************************************************************************)
(* Generic values, as yaml.safe_load yields them.  A value is a tuple      *)
(* whose first element is its Python type.                                 *)
(***************************************************************************)
DocNone == <<"none">>
StrV(s) == <<"str", s>>
IntV(i) == <<"int", i>>
List(items) == <<"list", items>>
Dict(f) == <<"dict", f>>
TypeOf(v) == v[1]
Nothing == <<"nothing">>


(***************************************************************************)
(* DeepDiff(baseline, current, ignore_order=True), line 76.  The result is *)
(* the set of its entries; the check only tests it for emptiness and       *)
(* prints it.  With ignore_order (and report_repetition left at its        *)
(* default, False) the items of a list are hashed and the two sets of      *)
(* hashes are compared: neither the position of an item nor the number of  *)
(* times it occurs is looked at.  Canon is that hash: equal exactly for    *)
(* values DeepDiff takes for the same item.  An item found on one side     *)
(* only is reported as ItemRemoved or ItemAdded at the path of the list    *)
(* (DeepDiff may pair a removed and an added item into one changed value:  *)
(* the result is empty in the same cases).                                 *)
(***************************************************************************)
RECURSIVE Canon(_)
Canon(v) ==
    CASE TypeOf(v) = "list" -> <<"list", {Canon(v[2][i]) : i \in DOMAIN v[2]}>>
      [] TypeOf(v) = "dict" -> <<"dict", [k \in DOMAIN v[2] |-> Canon(v[2][k])]>>
      [] OTHER -> v

ItemHashes(l) == {Canon(l[2][i]) : i \in DOMAIN l[2]}

DiffEntry(path, kind, old, new) ==
    [path |-> path, kind |-> kind, oldValue |-> old, newValue |-> new]

RECURSIVE DiffAt(_, _, _)
DiffAt(path, t1, t2) ==
    IF TypeOf(t1) # TypeOf(t2)
    THEN {DiffEntry(path, "TypeChanged", t1, t2)}
    ELSE CASE TypeOf(t1) = "dict" ->
                LET k1 == DOMAIN t1[2]
                    k2 == DOMAIN t2[2]
                IN  {DiffEntry(Append(path, k), "Added", Nothing, t2[2][k]) : k \in k2 \ k1}
                    \cup
                    {DiffEntry(Append(path, k), "Removed", t1[2][k], Nothing) : k \in k1 \ k2}
                    \cup
                    UNION {DiffAt(Append(path, k), t1[2][k], t2[2][k]) : k \in k1 \cap k2}
           [] TypeOf(t1) = "list" ->
                {DiffEntry(path, "ItemRemoved", h, Nothing) : h \in ItemHashes(t1) \ ItemHashes(t2)}
                \cup
                {DiffEntry(path, "ItemAdded", Nothing, h) : h \in ItemHashes(t2) \ ItemHashes(t1)}
           [] OTHER ->
                IF t1 = t2 THEN {} ELSE {DiffEntry(path, "Changed", t1, t2)}

DeepDiffSwapped(baseline_config, current_config) == DiffAt(<<>>, current_config, baseline_config)

DeepDiff(baseline_config, current_config) == DiffAt(<<>>, baseline_config, current_config)

(***************************************************************************)
(* File contents and yaml.safe_load (lines 71-74).  A file is absent, or   *)
(* holds text that is not YAML, or is empty, or holds the text of a        *)
(* document.  safe_load of an empty file is None.                          *)
(***************************************************************************)
Absent == <<"absent">>
Malformed == <<"malformed">>
EmptyFile == <<"empty">>
Yaml(doc) == <<"yaml", doc>>

SafeLoad(content) ==
    CASE content = EmptyFile -> DocNone
      [] content[1] = "yaml" -> content[2]

\* open(path, "r") followed by yaml.safe_load: the exception raised, or "ok"
LoadError(content) ==
    CASE content = Absent -> "IOError"
      [] content = Malformed -> "ParseError"
      [] OTHER -> "ok"


(***************************************************************************)
(* Paths.  The operator supplies a path in absolute or in relative form;   *)
(* the file it names is the absolute one.                                  *)
(***************************************************************************)
PathApp == "/etc/app.conf"
PathSettings == "/etc/settings.yaml"
PathRel == "app.conf"
PathOther == "/etc/other.txt"

\* os.path.abspath (line 179), with the process's working directory /cwd
Abspath(p) == IF p = PathRel THEN "/cwd/app.conf" ELSE p

\* os.path.dirname of an absolute path (line 179)
Dirname(p) == IF p = "/cwd/app.conf" THEN "/cwd" ELSE "/etc"

\* the live files of the model, by absolute path
LiveFiles == {PathApp, PathSettings, "/cwd/app.conf"}
\* the paths a watch of /etc or /cwd reports events for
EventPaths == LiveFiles \cup {PathOther}
\* logical names; the baseline of name n is <baselineDir>/<n>.yaml
Names == {"app_config", "settings"}

\* the documents the files of the model hold
DocV1 == Dict([setting1 |-> StrV("value1")])
DocV2 == Dict([setting1 |-> StrV("value2")])
FsDocs == {DocV1, DocV2}
Contents == {Absent, Malformed, EmptyFile} \cup {Yaml(d) : d \in FsDocs}

\* the command lines of the model: (config_files, config_names)
ArgChoices ==
    { [config_files |-> <<PathApp, PathSettings>>, config_names |-> <<"app_config", "settings">>],
      [config_files |-> <<PathApp>>, config_names |-> <<"app_config", "settings">>],
      [config_files |-> <<PathApp, PathApp>>, config_names |-> <<"app_config", "settings">>],
      [config_files |-> <<PathRel, PathSettings>>, config_names |-> <<"app_config", "settings">>] }

VARIABLES
    args,           \* the parsed command line (line 158)
    baseDirExists,  \* os.path.isdir(args.baseline_dir)
    live,           \* contents of the live files, by absolute path
    baseline,       \* contents of <baselineDir>/<name>.yaml, by name
    pc,             \* where main() is
    exitStatus,     \* the process's exit status, or -1 while it runs
    mainLog,        \* records main() wrote with the root logger
    config_files,   \* ConfigChangeHandler.config_files: path -> name
    watched,        \* watched_directories (line 177)
    obs,            \* the observer: "new", "started" or "stopped"
    threadAlive,    \* the observer's dispatch thread has not died of an exception
    queue,          \* the observer's event queue
    active,         \* the calls of check_config_drift in progress
    log,            \* self.logger: the number of records written and the last one
    winChecks,      \* per path: the checks started since the last tick
    notifs,         \* notifications queued so far
    edits           \* edits made so far

vars == <<args, baseDirExists, live, baseline, pc, exitStatus, mainLog, config_files,
          watched, obs, threadAlive, queue, active, log, winChecks, notifs,
          edits>>

fsVars == <<live, baseline, edits>>
mainVars == <<pc, exitStatus, mainLog, config_files, watched>>
handlerVars == <<threadAlive, active, log>>

NoReport == [level |-> "none", filepath |-> "", outcome |-> "none", diff |-> {}, opened |-> {}]
NoChecks == [p \in EventPaths |-> 0]

Init ==
    /\ args \in ArgChoices
    /\ baseDirExists \in BOOLEAN
    /\ live \in [LiveFiles -> {Absent, Yaml(DocV1)}]
    /\ live[PathSettings] = Yaml(DocV1)
    /\ live["/cwd/app.conf"] = Yaml(DocV1)
    /\ baseline \in [Names -> {Absent, Yaml(DocV1)}]
    /\ baseline["settings"] = IF baseDirExists THEN Yaml(DocV1) ELSE Absent
    /\ (~baseDirExists => baseline["app_config"] = Absent)
    /\ (args.config_files # <<PathApp, PathSettings>> =>
            /\ baseDirExists
            /\ live[PathApp] = Yaml(DocV1)
            /\ baseline["app_config"] = Yaml(DocV1))
    /\ pc = "validate"
    /\ exitStatus = -1
    /\ mainLog = <<>>
    /\ config_files = <<>>
    /\ watched = {}
    /\ obs = "new"
    /\ threadAlive = TRUE
    /\ queue = <<>>
    /\ active = <<>>
    /\ log = [count |-> 0, last |-> NoReport]
    /\ winChecks = NoChecks
    /\ notifs = 0
    /\ edits = 0


(***************************************************************************)
(* The main thread: main(), lines 155-195.                                 *)
(***************************************************************************)
validate_input_no_file_test(a) ==
    IF Len(a.config_files) # Len(a.config_names)
    THEN "count_mismatch"
    ELSE IF ~baseDirExists
    THEN "baseline_dir_missing"
    ELSE "ok"

\* validate_input: the ValueError it raises, or "ok"
validate_input(a) ==
    IF Len(a.config_files) # Len(a.config_names)
    THEN "count_mismatch"
    ELSE IF ~baseDirExists
    THEN "baseline_dir_missing"
    ELSE IF \E i \in DOMAIN a.config_files : live[Abspath(a.config_files[i])] = Absent
    THEN "config_file_missing"
    ELSE "ok"

\* dict(zip(files, names)): zip stops at the shorter list, a later pair
\* replaces an earlier pair of the same path
DictZip(files, names) ==
    LET n == IF Len(files) < Len(names) THEN Len(files) ELSE Len(names)
        last(p) == CHOOSE i \in 1..n : files[i] = p /\ \A j \in 1..n : files[j] = p => j <= i
    IN  [p \in {files[i] : i \in 1..n} |-> names[last(p)]]

\* lines 163-167
Validate ==
    /\ pc = "validate"
    /\ IF validate_input(args) = "ok"
       THEN /\ pc' = "setup"
            /\ UNCHANGED <<exitStatus, mainLog>>
       ELSE /\ mainLog' = Append(mainLog, [level |-> "error", msg |-> validate_input(args)])
            /\ exitStatus' = 1
            /\ pc' = "exited"
    /\ UNCHANGED <<args, baseDirExists, fsVars, config_files, watched, obs, queue,
                   handlerVars, winChecks, notifs>>

\* lines 169-183: the handler's table and one watch per parent directory
Setup ==
    /\ pc = "setup"
    /\ config_files' = DictZip(args.config_files, args.config_names)
    /\ watched' = {Dirname(Abspath(args.config_files[i])) : i \in DOMAIN args.config_files}
    /\ pc' = "start"
    /\ UNCHANGED <<args, baseDirExists, fsVars, exitStatus, mainLog, obs, queue,
                   handlerVars, winChecks, notifs>>

\* lines 185-186
Start ==
    /\ pc = "start"
    /\ obs' = "started"
    /\ mainLog' = Append(mainLog, [level |-> "info", msg |-> "started"])
    /\ pc' = "running"
    /\ UNCHANGED <<args, baseDirExists, fsVars, exitStatus, config_files, watched, queue,
                   handlerVars, winChecks, notifs>>

TickPolls ==
    /\ pc = "running"
    /\ winChecks' = NoChecks
    /\ IF active = <<>> /\ log.count < MaxNotifs
       THEN \E p \in DOMAIN config_files :
                active' = <<[filepath |-> p, at |-> "lookup", current_config |-> Nothing,
                             baseline_config |-> Nothing, opened |-> {}, since |-> edits,
                             tested |-> edits]>>
       ELSE UNCHANGED active
    /\ UNCHANGED <<args, baseDirExists, fsVars, mainVars, obs, queue, threadAlive, log, notifs>>

\* lines 189-190: time.sleep(args.interval) returns and the loop goes round;
\* a new interval begins
Tick ==
    /\ pc = "running"
    /\ winChecks' = NoChecks
    /\ UNCHANGED <<args, baseDirExists, fsVars, mainVars, obs, queue, handlerVars, notifs>>

\* lines 191-192: KeyboardInterrupt raised in the sleep (an interrupt raised
\* before the try of line 188 is not modelled)
Interrupt ==
    /\ pc = "running"
    /\ mainLog' = Append(mainLog, [level |-> "info", msg |-> "stopped_by_user"])
    /\ pc' = "finally"
    /\ UNCHANGED <<args, baseDirExists, fsVars, exitStatus, config_files, watched, obs,
                   queue, handlerVars, winChecks, notifs>>

ObserverStopNoWait ==
    /\ pc = "finally"
    /\ obs' = "stopped"
    /\ pc' = "join"
    /\ UNCHANGED <<args, baseDirExists, fsVars, exitStatus, mainLog, config_files, watched,
                   queue, handlerVars, winChecks, notifs>>

\* line 194: observer.stop() sets the stop flag, then takes the observer's
\* lock, which the dispatch thread holds while a handler runs, and removes
\* the handlers and the watches
ObserverStop ==
    /\ pc = "finally"
    /\ active = <<>>
    /\ obs' = "stopped"
    /\ pc' = "join"
    /\ UNCHANGED <<args, baseDirExists, fsVars, exitStatus, mainLog, config_files, watched,
                   queue, handlerVars, winChecks, notifs>>

\* line 195, then main returns: exit status 0
ObserverJoin ==
    /\ pc = "join"
    /\ active = <<>>
    /\ exitStatus' = 0
    /\ pc' = "exited"
    /\ UNCHANGED <<args, baseDirExists, fsVars, mainLog, config_files, watched, obs,
                   queue, handlerVars, winChecks, notifs>>


(***************************************************************************)
(* The environment: edits of the files, and the watches' emitter threads   *)
(* putting "modified" events on the observer's event queue.  A watch       *)
(* delivers at least one event per change and may deliver several, so the  *)
(* number and the time of the notifications are the environment's choice.  *)
(***************************************************************************)
\* the events a watch of a directory can put on the queue: a file of the
\* directory was modified; a path of it that is a directory by now was
\* modified.  (The event for the watched directory itself has a path that
\* is no key of config_files: on_modified drops it as it drops the event
\* for other.txt.)
Events ==
    {[is_directory |-> FALSE, src_path |-> p] : p \in EventPaths}
    \cup {[is_directory |-> TRUE, src_path |-> PathApp]}

EventDir(e) == Dirname(e.src_path)

Notify(e) ==
    /\ obs = "started"
    /\ EventDir(e) \in watched
    /\ notifs < MaxNotifs
    /\ notifs' = notifs + 1
    /\ queue' = Append(queue, e)
    /\ UNCHANGED <<args, baseDirExists, fsVars, mainVars, obs, handlerVars, winChecks>>

EditLive(f, c) ==
    /\ obs = "started"
    /\ edits < MaxEdits
    /\ f \in {Abspath(p) : p \in DOMAIN config_files}
    /\ c # live[f]
    /\ live' = [live EXCEPT ![f] = c]
    /\ edits' = edits + 1
    /\ UNCHANGED <<args, baseDirExists, baseline, mainVars, obs, queue, handlerVars,
                   winChecks, notifs>>

EditBaseline(n, c) ==
    /\ obs = "started"
    /\ edits < MaxEdits
    /\ n \in {config_files[p] : p \in DOMAIN config_files}
    /\ c # baseline[n]
    /\ baseline' = [baseline EXCEPT ![n] = c]
    /\ edits' = edits + 1
    /\ UNCHANGED <<args, baseDirExists, live, mainVars, obs, queue, handlerVars,
                   winChecks, notifs>>

(***************************************************************************)
(* The observer's dispatch thread: ConfigChangeHandler, lines 43-92.       *)
(***************************************************************************)
RemoveAt(seq, i) == SubSeq(seq, 1, i - 1) \o SubSeq(seq, i + 1, Len(seq))

QualifiesAnyFile(event) == ~event.is_directory

QualifiesOncePerInterval(event) ==
    /\ ~event.is_directory
    /\ event.src_path \in DOMAIN config_files
    /\ winChecks[event.src_path] = 0

\* lines 50-53: the event is passed on to check_config_drift
Qualifies(event) ==
    /\ ~event.is_directory
    /\ event.src_path \in DOMAIN config_files

CanDispatchAlways == TRUE

\* The observer has one dispatch thread (lines 174, 185): it takes the next
\* event off the queue only when the handler of the previous one has returned.
CanDispatch == active = <<>>

CatchesOSErrorOnly(exc) == exc \in {"KeyError", "IOError"}

CatchesYAMLErrorOnly(exc) == exc \in {"ParseError"}

\* line 88: except Exception
Catches(exc) == exc \in {"KeyError", "IOError", "ParseError"}

\* a call of check_config_drift(filepath), about to run line 64; since,
\* tested: the number of edits made before the call and before its test of
\* line 67 (history, read by no action)
NewCheck(filepath) ==
    [filepath |-> filepath, at |-> "lookup", current_config |-> Nothing,
     baseline_config |-> Nothing, opened |-> {}, since |-> edits, tested |-> edits]

\* a record of self.logger; opened: the files the check opened before it
Report(level, filepath, outcome, diff, opened) ==
    [level |-> level, filepath |-> filepath, outcome |-> outcome, diff |-> diff,
     opened |-> opened]

\* self.logger.error / warning / info
Emit(record) == [count |-> log.count + 1, last |-> record]

\* lines 43-54: on_modified is called with the next event of the queue
Dispatch ==
    /\ obs = "started"
    /\ threadAlive
    /\ CanDispatch
    /\ queue # <<>>
    /\ LET event == Head(queue)
       IN  /\ queue' = Tail(queue)
           /\ IF Qualifies(event)
              THEN /\ active' = Append(active, NewCheck(event.src_path))
                   /\ winChecks' = [winChecks EXCEPT ![event.src_path] = @ + 1]
              ELSE UNCHANGED <<active, winChecks>>
    /\ UNCHANGED <<args, baseDirExists, fsVars, mainVars, obs, threadAlive, log, notifs>>

\* an exception of kind exc is raised inside the try of check i (lines 63-92)
Raise(i, exc, opened) ==
    IF Catches(exc)
    THEN /\ log' = Emit(Report("error", active[i].filepath, exc, {}, opened))
         /\ active' = RemoveAt(active, i)
         /\ UNCHANGED threadAlive
    ELSE /\ threadAlive' = FALSE
         /\ active' = RemoveAt(active, i)
         /\ UNCHANGED log

ConfigNameFirst(filepath) == args.config_names[1]

\* line 64: config_name = self.config_files[filepath]
ConfigName(filepath) == config_files[filepath]

BaselineExistsAlways(config_name) == TRUE

\* os.path.exists(baseline_path), line 67
BaselineExists(config_name) == baseline[config_name] # Absent

CheckBaselineNoReturn(i) ==
    /\ i \in DOMAIN active
    /\ active[i].at = "lookup"
    /\ IF active[i].filepath \notin DOMAIN config_files
       THEN Raise(i, "KeyError", active[i].opened)
       ELSE IF ~BaselineExists(ConfigName(active[i].filepath))
       THEN /\ log' = Emit(Report("error", active[i].filepath, "BaselineMissing", {},
                                   active[i].opened))
            /\ active' = [active EXCEPT ![i].at = "open_current", ![i].tested = edits]
            /\ UNCHANGED threadAlive
       ELSE /\ active' = [active EXCEPT ![i].at = "open_current", ![i].tested = edits]
            /\ UNCHANGED <<threadAlive, log>>
    /\ UNCHANGED <<args, baseDirExists, fsVars, mainVars, obs, queue, winChecks, notifs>>

\* lines 64-69
CheckBaseline(i) ==
    /\ i \in DOMAIN active
    /\ active[i].at = "lookup"
    /\ IF active[i].filepath \notin DOMAIN config_files
       THEN Raise(i, "KeyError", active[i].opened)
       ELSE IF ~BaselineExists(ConfigName(active[i].filepath))
       THEN /\ log' = Emit(Report("error", active[i].filepath, "BaselineMissing", {},
                                   active[i].opened))
            /\ active' = RemoveAt(active, i)
            /\ UNCHANGED threadAlive
       ELSE /\ active' = [active EXCEPT ![i].at = "open_current", ![i].tested = edits]
            /\ UNCHANGED <<threadAlive, log>>
    /\ UNCHANGED <<args, baseDirExists, fsVars, mainVars, obs, queue, winChecks, notifs>>

\* lines 71-72
OpenCurrent(i) ==
    /\ i \in DOMAIN active
    /\ active[i].at = "open_current"
    /\ LET content == live[Abspath(active[i].filepath)]
           opened == active[i].opened \cup {"current"}
       IN  IF LoadError(content) # "ok"
           THEN Raise(i, LoadError(content), opened)
           ELSE /\ active' = [active EXCEPT ![i].at = "open_baseline",
                                            ![i].current_config = SafeLoad(content),
                                            ![i].opened = opened]
                /\ UNCHANGED <<threadAlive, log>>
    /\ UNCHANGED <<args, baseDirExists, fsVars, mainVars, obs, queue, winChecks, notifs>>

\* lines 73-74
OpenBaseline(i) ==
    /\ i \in DOMAIN active
    /\ active[i].at = "open_baseline"
    /\ LET content == baseline[ConfigName(active[i].filepath)]
           opened == active[i].opened \cup {"baseline"}
       IN  IF LoadError(content) # "ok"
           THEN Raise(i, LoadError(content), opened)
           ELSE /\ active' = [active EXCEPT ![i].at = "diff",
                                            ![i].baseline_config = SafeLoad(content),
                                            ![i].opened = opened]
                /\ UNCHANGED <<threadAlive, log>>
    /\ UNCHANGED <<args, baseDirExists, fsVars, mainVars, obs, queue, winChecks, notifs>>

DriftReportInverted(filepath, diff, opened) ==
    IF diff = {}
    THEN Report("warning", filepath, "Drifted", diff, opened)
    ELSE Report("info", filepath, "InSync", {}, opened)

DriftReportCached(filepath, diff, opened) ==
    IF log.count > 0 /\ log.last.filepath = filepath /\ log.last.level # "error"
    THEN Report(log.last.level, filepath, log.last.outcome, log.last.diff, opened)
    ELSE IF diff # {}
    THEN Report("warning", filepath, "Drifted", diff, opened)
    ELSE Report("info", filepath, "InSync", {}, opened)

\* lines 78-86: if diff: warning with the diff, else: info
DriftReport(filepath, diff, opened) ==
    IF diff # {}
    THEN Report("warning", filepath, "Drifted", diff, opened)
    ELSE Report("info", filepath, "InSync", {}, opened)

DiffAndReportAgainstPath(i) ==
    /\ i \in DOMAIN active
    /\ active[i].at = "diff"
    /\ log' = Emit(DriftReport(active[i].filepath,
                               DeepDiff(active[i].baseline_config, StrV(active[i].filepath)),
                               active[i].opened))
    /\ active' = RemoveAt(active, i)
    /\ UNCHANGED <<args, baseDirExists, fsVars, mainVars, obs, queue, threadAlive,
                   winChecks, notifs>>

\* lines 76-86
DiffAndReport(i) ==
    /\ i \in DOMAIN active
    /\ active[i].at = "diff"
    /\ log' = Emit(DriftReport(active[i].filepath,
                               DeepDiff(active[i].baseline_config, active[i].current_config),
                               active[i].opened))
    /\ active' = RemoveAt(active, i)
    /\ UNCHANGED <<args, baseDirExists, fsVars, mainVars, obs, queue, threadAlive,
                   winChecks, notifs>>

Next ==
    \/ Validate
    \/ Setup
    \/ Start
    \/ Tick
    \/ Interrupt
    \/ ObserverStop
    \/ ObserverJoin
    \/ \E e \in Events : Notify(e)
    \/ \E f \in LiveFiles, c \in Contents : EditLive(f, c)
    \/ \E n \in Names, c \in Contents : EditBaseline(n, c)
    \/ Dispatch
    \/ \E i \in 1..MaxNotifs : CheckBaseline(i)
    \/ \E i \in 1..MaxNotifs : OpenCurrent(i)
    \/ \E i \in 1..MaxNotifs : OpenBaseline(i)
    \/ \E i \in 1..MaxNotifs : DiffAndReport(i)

Spec == Init /\ [][Next]_vars


(***************************************************************************)
(* The comparator specification: one check, from the notification to the   *)
(* report, of a live file and a baseline drawn from CmpDocs.               *)
(***************************************************************************)
ListItems == {IntV(1), IntV(2), StrV("a")}
SeqsUpTo(n) == UNION {[1..m -> ListItems] : m \in 0..n}
ListDoc(items) == Dict([k |-> List(items)])
CmpDocs == {ListDoc(items) : items \in SeqsUpTo(MaxLen)}

InitCmp ==
    /\ args = [config_files |-> <<PathApp, PathSettings>>,
               config_names |-> <<"app_config", "settings">>]
    /\ baseDirExists = TRUE
    /\ \E cur \in CmpDocs :
         live = [f \in LiveFiles |-> IF f = PathApp THEN Yaml(cur) ELSE Yaml(DocV1)]
    /\ \E base \in CmpDocs :
         baseline = [n \in Names |-> IF n = "app_config" THEN Yaml(base) ELSE Yaml(DocV1)]
    /\ pc = "running"
    /\ exitStatus = -1
    /\ mainLog = <<[level |-> "info", msg |-> "started"]>>
    /\ config_files = DictZip(args.config_files, args.config_names)
    /\ watched = {"/etc"}
    /\ obs = "started"
    /\ threadAlive = TRUE
    /\ queue = <<[is_directory |-> FALSE, src_path |-> PathApp]>>
    /\ active = <<>>
    /\ log = [count |-> 0, last |-> NoReport]
    /\ winChecks = NoChecks
    /\ notifs = 1
    /\ edits = 0

NextCmp ==
    \/ Dispatch
    \/ CheckBaseline(1)
    \/ OpenCurrent(1)
    \/ OpenBaseline(1)
    \/ DiffAndReport(1)

SpecCmp == InitCmp /\ [][NextCmp]_vars


(***************************************************************************)
(* The key specification: one check, from the notification to the report,  *)
(* of a baseline holding a document (nested maps of scalars, or a map with *)
(* a list) and a live file holding the same document or the document with  *)
(* one key set or deleted; either file may also be empty.                  *)
(***************************************************************************)
\* nested maps below the root map
MaxDepth == 1

Keys == {"db_host", "db_port"}
SubKey == "db"
Leaves == {StrV("localhost"), StrV("remote"), IntV(5432)}

\* the map m with key k set to v
Extend(m, k, v) == [x \in DOMAIN m \cup {k} |-> IF x = k THEN v ELSE m[x]]
\* the map m without key k
Without(m, k) == [x \in DOMAIN m \ {k} |-> m[x]]

FlatMaps == UNION {[ks -> Leaves] : ks \in SUBSET Keys}

RECURSIVE DocsOfDepth(_)
DocsOfDepth(d) ==
    {Dict(m) : m \in FlatMaps}
    \cup (IF d = 0 THEN {}
          ELSE {Dict(Extend(m, SubKey, sub)) : m \in FlatMaps, sub \in DocsOfDepth(d - 1)})

\* the paths of the keys a document of DocsOfDepth(d) can have
RECURSIVE KeyPaths(_)
KeyPaths(d) ==
    {<<k>> : k \in Keys \cup {SubKey}}
    \cup (IF d = 0 THEN {} ELSE {<<SubKey>> \o p : p \in KeyPaths(d - 1)})

RECURSIVE HasPath(_, _)
HasPath(v, p) ==
    \/ p = <<>>
    \/ /\ TypeOf(v) = "dict"
       /\ Head(p) \in DOMAIN v[2]
       /\ HasPath(v[2][Head(p)], Tail(p))

RECURSIVE GetPath(_, _)
GetPath(v, p) == IF p = <<>> THEN v ELSE GetPath(v[2][Head(p)], Tail(p))

\* the document v with the key at path p set to x (the map that holds the
\* key is there)
RECURSIVE PutPath(_, _, _)
PutPath(v, p, x) ==
    IF Len(p) = 1
    THEN Dict(Extend(v[2], p[1], x))
    ELSE Dict(Extend(v[2], Head(p), PutPath(v[2][Head(p)], Tail(p), x)))

\* the document v without the key at path p
RECURSIVE DelPath(_, _)
DelPath(v, p) ==
    IF Len(p) = 1
    THEN Dict(Without(v[2], p[1]))
    ELSE Dict(Extend(v[2], Head(p), DelPath(v[2][Head(p)], Tail(p))))

Parent(p) == SubSeq(p, 1, Len(p) - 1)
HoldsKeyAt(v, p) == HasPath(v, Parent(p)) /\ TypeOf(GetPath(v, Parent(p))) = "dict"

\* the document d, and d after one edit of one key
OneKeyEdits(d) ==
    {d}
    \cup {PutPath(d, p, x) : p \in {q \in KeyPaths(MaxDepth) : HoldsKeyAt(d, q)},
                             x \in Leaves \cup {Dict(<<>>), List(<<IntV(1)>>)}}
    \cup {DelPath(d, p) : p \in {q \in KeyPaths(MaxDepth) : HasPath(d, q)}}

KeyDocs == DocsOfDepth(MaxDepth) \cup CmpDocs

\* what the baseline file holds: a document, or nothing at all
BaselineContents == {Yaml(d) : d \in KeyDocs} \cup {EmptyFile}

\* what the live file holds, given the baseline: the same (an empty file for
\* an empty file), the document after one key edit, an empty file, or the
\* empty map for an empty baseline
LiveContentsFor(base) ==
    {EmptyFile}
    \cup (IF base = EmptyFile
          THEN {Yaml(Dict(<<>>))}
          ELSE {Yaml(e) : e \in OneKeyEdits(SafeLoad(base))})

InitKeys ==
    /\ args = [config_files |-> <<PathApp, PathSettings>>,
               config_names |-> <<"app_config", "settings">>]
    /\ baseDirExists = TRUE
    /\ \E base \in BaselineContents :
         /\ baseline = [n \in Names |-> IF n = "app_config" THEN base ELSE Yaml(DocV1)]
         /\ \E cur \in LiveContentsFor(base) :
              live = [f \in LiveFiles |-> IF f = PathApp THEN cur ELSE Yaml(DocV1)]
    /\ pc = "running"
    /\ exitStatus = -1
    /\ mainLog = <<[level |-> "info", msg |-> "started"]>>
    /\ config_files = DictZip(args.config_files, args.config_names)
    /\ watched = {"/etc"}
    /\ obs = "started"
    /\ threadAlive = TRUE
    /\ queue = <<[is_directory |-> FALSE, src_path |-> PathApp]>>
    /\ active = <<>>
    /\ log = [count |-> 0, last |-> NoReport]
    /\ winChecks = NoChecks
    /\ notifs = 1
    /\ edits = 0

SpecKeys == InitKeys /\ [][NextCmp]_vars


(***************************************************************************)
(* Steps, as the properties below recognise them.                          *)
(***************************************************************************)
\* the dispatch thread takes the head of the queue and calls on_modified
DispatchStep == queue # <<>> /\ queue' = Tail(queue)

\* on_modified has called check_config_drift(p)
StartedCheckFor(p) ==
    /\ Len(active') = Len(active) + 1
    /\ SubSeq(active', 1, Len(active)) = active
    /\ active'[Len(active')].filepath = p
    /\ active'[Len(active')].at = "lookup"

\* a call in progress has moved on or returned
CheckStep == active' # active /\ Len(active') <= Len(active)

\* call i has returned
CheckEnds(i) == i \in DOMAIN active /\ active' = RemoveAt(active, i)

\* call i has returned after writing exactly the record r
CheckReports(i, r) ==
    /\ CheckEnds(i)
    /\ log' = [count |-> log.count + 1, last |-> r]

(***************************************************************************)
(* C1: a notification for a directory, or for a path that is not tracked,  *)
(* starts no check and writes no record; a notification for a tracked file *)
(* starts a check of that path.  No check in progress and no record is     *)
(* for an untracked path.                                                  *)
(***************************************************************************)
C1_OnModifiedFilter ==
    /\ [](/\ \A i \in DOMAIN active : active[i].filepath \in DOMAIN config_files
          /\ log.count > 0 => log.last.filepath \in DOMAIN config_files)
    /\ [][DispatchStep =>
            IF Head(queue).is_directory \/ Head(queue).src_path \notin DOMAIN config_files
            THEN active' = active /\ log' = log
            ELSE StartedCheckFor(Head(queue).src_path)]_vars

\* two notifications were delivered: one was dropped without a record, the
\* other started the check of /etc/app.conf
C1_Witness ==
    /\ notifs = 2
    /\ queue = <<>>
    /\ log.count = 0
    /\ Len(active) = 1
    /\ active[1].filepath = PathApp

(***************************************************************************)
(* C2: a check that has loaded both documents writes one record: a warning *)
(* "Drifted" carrying the diff exactly when DeepDiff(baseline, current) is *)
(* not empty, else an info "InSync" without a diff.  {setting1: value1}    *)
(* against {setting1: value2} is Drifted with one Changed entry at         *)
(* setting1; equal documents are InSync.                                   *)
(***************************************************************************)
C2_DriftedIffDiff ==
    [][\A i \in DOMAIN active :
         (active[i].at = "diff" /\ CheckStep) =>
            LET b == active[i].baseline_config
                c == active[i].current_config
                d == DeepDiff(b, c)
            IN  /\ CheckEnds(i)
                /\ log'.count = log.count + 1
                /\ log'.last.filepath = active[i].filepath
                /\ d # {} <=> (log'.last.level = "warning" /\ log'.last.outcome = "Drifted")
                /\ d = {} <=> (log'.last.level = "info" /\ log'.last.outcome = "InSync")
                /\ log'.last.diff = d
                /\ (b = DocV1 /\ c = DocV2) =>
                      /\ log'.last.outcome = "Drifted"
                      /\ log'.last.diff =
                            {DiffEntry(<<"setting1">>, "Changed", StrV("value1"), StrV("value2"))}
                /\ b = c => log'.last.outcome = "InSync"]_vars

\* the check of baseline {setting1: value1} against current {setting1: value2}
\* has reported Drifted
C2_Witness ==
    /\ log.last.level = "warning"
    /\ log.last.outcome = "Drifted"
    /\ log.last.diff = {DiffEntry(<<"setting1">>, "Changed", StrV("value1"), StrV("value2"))}

(***************************************************************************)
(* C3: a check that finds no file at the baseline path writes one error    *)
(* record "BaselineMissing" and returns: it opens neither file, writes no  *)
(* InSync or Drifted record, raises nothing (the dispatch thread lives on  *)
(* and the observer stays as it is), so the next notification for the      *)
(* config starts a new check.                                              *)
(***************************************************************************)
C3_BaselineMissing ==
    /\ [](log.last.outcome = "BaselineMissing" =>
            /\ log.last.level = "error"
            /\ log.last.opened = {}
            /\ log.last.diff = {}
            /\ threadAlive)
    /\ [][\A i \in DOMAIN active :
            (/\ active[i].at = "lookup"
             /\ active[i].filepath \in DOMAIN config_files
             /\ baseline[config_files[active[i].filepath]] = Absent
             /\ CheckStep) =>
                /\ CheckReports(i, Report("error", active[i].filepath, "BaselineMissing", {}, {}))
                /\ threadAlive'
                /\ obs' = obs]_vars

\* after the BaselineMissing record of /etc/app.conf, the next notification
\* for it has started a new check
C3_Witness ==
    /\ log.last.outcome = "BaselineMissing"
    /\ log.last.filepath = PathApp
    /\ Len(active) = 1
    /\ active[1].filepath = PathApp

(***************************************************************************)
(* C4: a check whose live or baseline file cannot be opened or parsed      *)
(* writes one error record (IOError for a file that is gone, ParseError    *)
(* for text that is not YAML) and returns; no exception leaves             *)
(* check_config_drift (the dispatch thread never dies) and the check       *)
(* writes no InSync or Drifted record.                                     *)
(***************************************************************************)
C4_LoadFailure ==
    /\ []threadAlive
    /\ [][\A i \in DOMAIN active :
            LET fp == active[i].filepath
                content == IF active[i].at = "open_current"
                           THEN live[Abspath(fp)]
                           ELSE baseline[config_files[fp]]
            IN  (/\ active[i].at \in {"open_current", "open_baseline"}
                 /\ content \in {Absent, Malformed}
                 /\ CheckStep) =>
                    /\ CheckEnds(i)
                    /\ log'.count = log.count + 1
                    /\ log'.last.level = "error"
                    /\ log'.last.filepath = fp
                    /\ log'.last.outcome = IF content = Absent THEN "IOError" ELSE "ParseError"
                    /\ log'.last.diff = {}
                    /\ threadAlive']_vars

\* the live file loaded, the baseline did not parse: an error record
C4_Witness ==
    /\ log.last.level = "error"
    /\ log.last.outcome = "ParseError"
    /\ log.last.opened = {"current", "baseline"}


\* the outcome of a check that finds these contents in its two files
ExpectedOutcome(liveContent, baseContent) ==
    IF baseContent = Absent THEN "BaselineMissing"
    ELSE IF liveContent = Absent THEN "IOError"
    ELSE IF liveContent = Malformed THEN "ParseError"
    ELSE IF baseContent = Malformed THEN "ParseError"
    ELSE IF DeepDiff(SafeLoad(baseContent), SafeLoad(liveContent)) = {} THEN "InSync"
    ELSE "Drifted"

(***************************************************************************)
(* C5: errors stay with their config.  The dispatch thread never dies and  *)
(* the observer stays started while main runs or waits to stop it.  When   *)
(* the last record is an error of config A, a notification for another     *)
(* tracked file B still starts its check, and a check of B that no edit    *)
(* disturbed ends with the outcome that B's own live file and B's own      *)
(* baseline give.                                                          *)
(***************************************************************************)
C5_ErrorIsolation ==
    /\ [](threadAlive /\ (pc \in {"running", "finally"} => obs = "started"))
    /\ [][(/\ log.last.level = "error"
           /\ DispatchStep
           /\ ~Head(queue).is_directory
           /\ Head(queue).src_path \in DOMAIN config_files
           /\ Head(queue).src_path # log.last.filepath) =>
              StartedCheckFor(Head(queue).src_path)]_vars
    /\ [][\A i \in DOMAIN active :
            (/\ log.last.level = "error"
             /\ active[i].filepath # log.last.filepath
             /\ active[i].since = edits
             /\ CheckEnds(i)) =>
                /\ log'.count = log.count + 1
                /\ log'.last.filepath = active[i].filepath
                /\ log'.last.outcome =
                      ExpectedOutcome(live[Abspath(active[i].filepath)],
                                      baseline[config_files[active[i].filepath]])]_vars

\* the last record is an error of /etc/app.conf, and the check of
\* /etc/settings.yaml that started after it has loaded both its documents
C5_Witness ==
    /\ log.last.level = "error"
    /\ log.last.filepath = PathApp
    /\ Len(active) = 1
    /\ active[1].filepath = PathSettings
    /\ active[1].at = "diff"

C7_OneInFlightPerConfig ==
    \A i, j \in DOMAIN active : active[i].filepath = active[j].filepath => i = j

\* a check of /etc/app.conf is in progress while the next notification for
\* /etc/app.conf waits in the queue
C7_Witness ==
    /\ Len(active) = 1
    /\ active[1].filepath = PathApp
    /\ queue # <<>>
    /\ Head(queue) = [is_directory |-> FALSE, src_path |-> PathApp]

\* the command line or the files at startup are as validate_input rejects them
StartupInvalid ==
    \/ Len(args.config_files) # Len(args.config_names)
    \/ ~baseDirExists
    \/ \E i \in DOMAIN args.config_files : live[Abspath(args.config_files[i])] = Absent

(***************************************************************************)
(* C8: startup validation.  If the two lists differ in length, or the      *)
(* baseline directory is no directory, or a tracked file is no file, main  *)
(* logs one error and exits with status 1 with the observer never          *)
(* scheduled or started; otherwise (a missing baseline file included) it   *)
(* goes on to schedule the watches and start the observer.                 *)
(***************************************************************************)
C8_StartupValidation ==
    /\ pc = "validate" => (obs = "new" /\ watched = {} /\ exitStatus = -1)
    /\ exitStatus = 1 =>
          /\ pc = "exited"
          /\ obs = "new"
          /\ watched = {}
          /\ queue = <<>>
          /\ log.count = 0
          /\ Len(mainLog) = 1
          /\ mainLog[1].level = "error"
          /\ mainLog[1].msg \in {"count_mismatch", "baseline_dir_missing",
                                 "config_file_missing"}
    /\ (edits = 0 /\ pc # "validate") => (StartupInvalid <=> exitStatus = 1)
    /\ (pc \notin {"validate", "setup", "start"} /\ exitStatus # 1) => obs # "new"

\* a tracked file is missing: the process has exited with status 1
C8_Witness ==
    /\ pc = "exited"
    /\ exitStatus = 1
    /\ Len(args.config_files) = Len(args.config_names)
    /\ baseDirExists
    /\ live[PathApp] = Absent

(***************************************************************************)
(* C9: shutdown.  The interrupt takes main from the idle loop to the       *)
(* finally block for good; the observer is stopped only when no check is   *)
(* in progress, and once it is stopped no check starts and no record is    *)
(* written; a check in progress leaves only by writing its record; the     *)
(* process exits with status 0 after the observer is stopped and joined.   *)
(***************************************************************************)
C9_GracefulShutdown ==
    /\ [](obs = "stopped" => (active = <<>> /\ pc \in {"join", "exited"}))
    /\ [](exitStatus = 0 => (pc = "exited" /\ obs = "stopped" /\ active = <<>>))
    /\ []((pc = "exited" /\ obs # "new") => exitStatus = 0)
    /\ [][pc = "running" => pc' \in {"running", "finally"}]_vars
    /\ [][(pc \in {"finally", "join", "exited"}) => (pc' # "running")]_vars
    /\ [][pc = "finally" => pc' \in {"finally", "join"}]_vars
    /\ [][obs = "stopped" => (active' = active /\ log' = log /\ obs' = "stopped")]_vars
    /\ [][Len(active') < Len(active) => log'.count = log.count + 1]_vars

\* the process has exited with status 0 after a check reported, and a
\* notification that was still queued when the observer stopped started none
C9_Witness ==
    /\ exitStatus = 0
    /\ log.count = 1
    /\ queue # <<>>
    /\ ~Head(queue).is_directory
    /\ Head(queue).src_path \in DOMAIN config_files

\* the list at key k of the document a file holds, and how two lists differ
ListIn(content) == content[2][2]["k"][2]
Count(S, x) == Cardinality({i \in DOMAIN S : S[i] = x})
IsPermutation(S, T) == Len(S) = Len(T) /\ \A x \in ListItems : Count(S, x) = Count(T, x)
InsertAt(S, i, x) == SubSeq(S, 1, i) \o <<x>> \o SubSeq(S, i + 1, Len(S))
ElementAdded(S, T) == \E i \in 0..Len(S), x \in ListItems : T = InsertAt(S, i, x)
ElementRemoved(S, T) == \E i \in DOMAIN S : T = RemoveAt(S, i)
ElementDuplicated(S, T) == \E i \in DOMAIN S : T = InsertAt(S, i, S[i])

(***************************************************************************)
(* C10 as stated, on the comparator specification: a check of baseline     *)
(* {k: S} against current {k: T} reports InSync when T is a permutation of *)
(* S, and Drifted when T is S with one element added, removed or           *)
(* duplicated.                                                             *)
(***************************************************************************)
C10_OrderInsensitiveMultiset ==
    log.count = 1 =>
        LET S == ListIn(baseline["app_config"])
            T == ListIn(live[PathApp])
        IN  /\ IsPermutation(S, T) => (log.last.outcome = "InSync" /\ log.last.diff = {})
            /\ (ElementAdded(S, T) \/ ElementRemoved(S, T) \/ ElementDuplicated(S, T)) =>
                  log.last.outcome = "Drifted"

\* the documents the check of the key specification loads
BaseDoc == SafeLoad(baseline["app_config"])
CurDoc == SafeLoad(live[PathApp])

(***************************************************************************)
(* C11: reflexivity, on the key specification.  A check whose baseline and *)
(* live file parse to the same document (nested maps of scalars, a map     *)
(* with a list, or None for two empty files) reports InSync at level info  *)
(* with an empty diff.                                                     *)
(***************************************************************************)
C11_Reflexivity ==
    (log.count = 1 /\ BaseDoc = CurDoc) =>
        /\ log.last.level = "info"
        /\ log.last.outcome = "InSync"
        /\ log.last.diff = {}

\* a check of two equal documents with a nested map has reported InSync
C11_Witness ==
    /\ log.count = 1
    /\ BaseDoc = CurDoc
    /\ HasPath(BaseDoc, <<SubKey, "db_host">>)
    /\ HasPath(BaseDoc, <<"db_port">>)
    /\ log.last.outcome = "InSync"

\* c is b with the key at path p added, removed, or given another value
AddedAt(b, c, p) ==
    /\ HoldsKeyAt(b, p) /\ ~HasPath(b, p)
    /\ HasPath(c, p) /\ DelPath(c, p) = b
RemovedAt(b, c, p) ==
    /\ HasPath(b, p)
    /\ HoldsKeyAt(c, p) /\ ~HasPath(c, p) /\ DelPath(b, p) = c
\* the value is a scalar replaced by another scalar, or by a value of
\* another type (a map replaced by a map is a change of the keys below it)
ChangedAt(b, c, p) ==
    /\ HasPath(b, p) /\ HasPath(c, p)
    /\ GetPath(b, p) # GetPath(c, p)
    /\ \/ TypeOf(GetPath(b, p)) # TypeOf(GetPath(c, p))
       \/ TypeOf(GetPath(b, p)) \in {"str", "int"}
    /\ PutPath(b, p, GetPath(c, p)) = c

\* the one-entry diffs of an added and of a removed key
AddedEntry(c, p) == {DiffEntry(p, "Added", Nothing, GetPath(c, p))}
RemovedEntry(b, p) == {DiffEntry(p, "Removed", GetPath(b, p), Nothing)}

(***************************************************************************)
(* C12 as stated, on the key specification: a check of a document against  *)
(* the document with one key added, removed or changed, at any depth,      *)
(* reports Drifted with exactly one entry, of kind Added, Removed or       *)
(* Changed, at the path of that key.                                       *)
(***************************************************************************)
C12_OneEntryAddedRemovedChanged ==
    log.count = 1 =>
        \A p \in KeyPaths(MaxDepth) :
            /\ AddedAt(BaseDoc, CurDoc, p) => log.last.diff = AddedEntry(CurDoc, p)
            /\ RemovedAt(BaseDoc, CurDoc, p) => log.last.diff = RemovedEntry(BaseDoc, p)
            /\ ChangedAt(BaseDoc, CurDoc, p) =>
                  log.last.diff = {DiffEntry(p, "Changed", GetPath(BaseDoc, p),
                                             GetPath(CurDoc, p))}

(***************************************************************************)
(* C12 as amended: the one entry of a changed key is of kind Changed when  *)
(* the old and the new value are of the same type, and of kind TypeChanged *)
(* when they are not.  Baseline {db_host: localhost} against current       *)
(* {db_host: localhost, db_port: 5432} gives one Added entry at db_port.   *)
(***************************************************************************)
C12_OneEntryPerKeyEdit ==
    log.count = 1 =>
        /\ \A p \in KeyPaths(MaxDepth) :
            /\ AddedAt(BaseDoc, CurDoc, p) =>
                  /\ log.last.outcome = "Drifted"
                  /\ log.last.diff = AddedEntry(CurDoc, p)
            /\ RemovedAt(BaseDoc, CurDoc, p) =>
                  /\ log.last.outcome = "Drifted"
                  /\ log.last.diff = RemovedEntry(BaseDoc, p)
            /\ ChangedAt(BaseDoc, CurDoc, p) =>
                  /\ log.last.outcome = "Drifted"
                  /\ log.last.diff =
                        {DiffEntry(p,
                                   IF TypeOf(GetPath(BaseDoc, p)) = TypeOf(GetPath(CurDoc, p))
                                   THEN "Changed" ELSE "TypeChanged",
                                   GetPath(BaseDoc, p), GetPath(CurDoc, p))}
        /\ (/\ BaseDoc = Dict([db_host |-> StrV("localhost")])
            /\ CurDoc = Dict([db_host |-> StrV("localhost"), db_port |-> IntV(5432)])) =>
              log.last.diff = {DiffEntry(<<"db_port">>, "Added", Nothing, IntV(5432))}

\* a key of the nested map was removed, and the check has reported the one
\* Removed entry at its path
C12_Witness ==
    /\ log.count = 1
    /\ RemovedAt(BaseDoc, CurDoc, <<SubKey, "db_host">>)
    /\ log.last.diff = RemovedEntry(BaseDoc, <<SubKey, "db_host">>)

\* the file is empty, or holds the empty map
EmptyOrEmptyMap(content) == content \in {EmptyFile, Yaml(Dict(<<>>))}

(***************************************************************************)
(* C13 as stated, on the key specification: an empty file counts as the    *)
(* empty map.  A check with an empty file on either side writes no error   *)
(* record and raises nothing, and a check whose two files are each empty   *)
(* or the empty map reports InSync.                                        *)
(***************************************************************************)
C13_EmptyFileIsEmptyMap ==
    log.count = 1 =>
        /\ (EmptyFile \in {live[PathApp], baseline["app_config"]}) =>
              (log.last.level # "error" /\ threadAlive)
        /\ (EmptyOrEmptyMap(live[PathApp]) /\ EmptyOrEmptyMap(baseline["app_config"])) =>
              log.last.outcome = "InSync"

(***************************************************************************)
(* C14: nothing is kept from one check to the next.  Each open reads what  *)
(* the file holds at that moment, and a check that no edit disturbed ends  *)
(* with one record whose outcome is the one the live file and the baseline *)
(* file give as they are then, whatever the records written before: an     *)
(* edit of the baseline shows in the next check of the config.             *)
(***************************************************************************)
C14_NoCaching ==
    /\ [][\A i \in DOMAIN active :
            (active[i].since = edits /\ CheckEnds(i)) =>
                /\ log'.count = log.count + 1
                /\ log'.last.filepath = active[i].filepath
                /\ log'.last.outcome =
                      ExpectedOutcome(live[Abspath(active[i].filepath)],
                                      baseline[config_files[active[i].filepath]])]_vars
    /\ [][\A i \in DOMAIN active :
            (CheckStep /\ Len(active') = Len(active)) =>
                /\ active[i].at = "open_current" =>
                      active'[i].current_config = SafeLoad(live[Abspath(active[i].filepath)])
                /\ active[i].at = "open_baseline" =>
                      active'[i].baseline_config =
                          SafeLoad(baseline[config_files[active[i].filepath]])]_vars

\* /etc/app.conf was reported InSync, its baseline was edited, and its next
\* check has loaded the edited baseline
C14_Witness ==
    /\ log.count = 1
    /\ log.last.filepath = PathApp
    /\ log.last.outcome = "InSync"
    /\ edits = 1
    /\ baseline[config_files[PathApp]] = Yaml(DocV2)
    /\ Len(active) = 1
    /\ active[1].filepath = PathApp
    /\ active[1].since = 1
    /\ active[1].at = "diff"
    /\ active[1].baseline_config = DocV2
    /\ active[1].current_config = DocV1

\* time.sleep has returned in the idle loop after a check was started
TickStep == pc = "running" /\ winChecks # NoChecks /\ winChecks' = NoChecks

TrackedFile(p) == \E i \in DOMAIN args.config_files : Abspath(args.config_files[i]) = p

(***************************************************************************)
(* C16 as stated: every notification on_modified gets for a file the       *)
(* operator supplied, in absolute or in relative form, starts a check.     *)
(***************************************************************************)
C16_TrackedNotificationStartsCheck ==
    [][(/\ DispatchStep
        /\ ~Head(queue).is_directory
        /\ TrackedFile(Head(queue).src_path)) =>
           Len(active') = Len(active) + 1]_vars

\* how far a call of check_config_drift has come
Pos(at) ==
    CASE at = "lookup" -> 1
      [] at = "open_current" -> 2
      [] at = "open_baseline" -> 3
      [] at = "diff" -> 4

\* the next statement of call i
StepOf(i) == CheckBaseline(i) \/ OpenCurrent(i) \/ OpenBaseline(i) \/ DiffAndReport(i)

\* a record of one outcome at the severity of that outcome
OneOutcome(r) ==
    \/ r.level = "info" /\ r.outcome = "InSync" /\ r.diff = {}
    \/ r.level = "warning" /\ r.outcome = "Drifted" /\ r.diff # {}
    \/ /\ r.level = "error"
       /\ r.outcome \in {"BaselineMissing", "IOError", "ParseError", "KeyError"}
       /\ r.diff = {}

(***************************************************************************)
(* C17: the life of a check.  A check in progress can always take its next *)
(* step, every step takes it further or ends it (so it ends within four    *)
(* steps of the dispatch thread), and it ends by writing exactly one       *)
(* record: info for InSync, warning for Drifted, error for an error.  No   *)
(* record is written otherwise, so no check writes none or two.  When no   *)
(* check is in progress the next event can be dispatched, and an event for *)
(* a tracked file, also one checked before, starts a new check.            *)
(***************************************************************************)
C17_CheckLifecycle ==
    /\ [](\A i \in DOMAIN active :
            /\ active[i].at \in {"lookup", "open_current", "open_baseline", "diff"}
            /\ ENABLED StepOf(i))
    /\ []((obs = "started" /\ active = <<>> /\ queue # <<>>) => ENABLED Dispatch)
    /\ [][\A i \in DOMAIN active :
            CheckStep =>
                \/ /\ Len(active') = Len(active)
                   /\ Pos(active'[i].at) > Pos(active[i].at)
                   /\ active'[i].filepath = active[i].filepath
                   /\ log' = log
                \/ /\ CheckEnds(i)
                   /\ log'.count = log.count + 1
                   /\ log'.last.filepath = active[i].filepath
                   /\ OneOutcome(log'.last)
                   /\ threadAlive']_vars
    /\ [][log' # log => (Len(active') = Len(active) - 1 /\ log'.count = log.count + 1)]_vars
    /\ [][(/\ log.count > 0
           /\ DispatchStep
           /\ Head(queue) = [is_directory |-> FALSE, src_path |-> log.last.filepath]) =>
              StartedCheckFor(log.last.filepath)]_vars

\* the check of /etc/app.conf has reported Drifted, and the next event for
\* /etc/app.conf has started a new check, which has come to the comparison
C17_Witness ==
    /\ log.count = 1
    /\ log.last.filepath = PathApp
    /\ log.last.level = "warning"
    /\ log.last.outcome = "Drifted"
    /\ Len(active) = 1
    /\ active[1].filepath = PathApp
    /\ active[1].at = "diff"

(***************************************************************************)
(* C18 as stated: after a successful startup the handler's table has one   *)
(* entry for each supplied (path, name) pair, with that name: no pair is   *)
(* dropped, also when a path is supplied more than once.                   *)
(***************************************************************************)
C18_TrackedSetIsSuppliedPairs ==
    (pc \in {"start", "running", "finally", "join"} \/ exitStatus = 0) =>
        /\ \A i \in DOMAIN args.config_files :
              /\ args.config_files[i] \in DOMAIN config_files
              /\ config_files[args.config_files[i]] = args.config_names[i]
        /\ Cardinality(DOMAIN config_files) = Len(args.config_files)

\* check i is at the given statement, and an external actor has changed a
\* file of the check after the existence test of line 67
RacedAt(i, at) == active[i].at = at /\ active[i].tested < edits

\* check i ends with one error record and nothing raised
EndsInError(i) ==
    /\ CheckEnds(i)
    /\ log'.count = log.count + 1
    /\ log'.last.level = "error"
    /\ log'.last.filepath = active[i].filepath
    /\ log'.last.diff = {}
    /\ threadAlive'

(***************************************************************************)
(* C19 as stated: a check that finds, at the open, that the live file was  *)
(* removed or truncated or the baseline file was removed after the         *)
(* existence test, ends in an error record, with no exception escaping.    *)
(***************************************************************************)
C19_RaceEndsInError ==
    [][\A i \in DOMAIN active :
         (/\ CheckStep
          /\ \/ /\ RacedAt(i, "open_current")
                /\ live[Abspath(active[i].filepath)] \in {Absent, EmptyFile}
             \/ /\ RacedAt(i, "open_baseline")
                /\ baseline[config_files[active[i].filepath]] = Absent) =>
            EndsInError(i)]_vars

(***************************************************************************)
(* C19 as amended: a file that was removed after the existence test (or    *)
(* whose text no longer parses) ends the check at the open with one error  *)
(* record, IOError or ParseError, and no exception escapes; a live file    *)
(* truncated to nothing is no error: it loads as None, the check goes on   *)
(* and reports by the comparison (Drifted against a baseline document).    *)
(* After such a check the next notification for the file starts a new one. *)
(***************************************************************************)
C19_RaceOutcome ==
    /\ []threadAlive
    /\ [][\A i \in DOMAIN active :
            LET fp == active[i].filepath
                content == IF active[i].at = "open_current"
                           THEN live[Abspath(fp)]
                           ELSE baseline[config_files[fp]]
            IN  (/\ CheckStep
                 /\ RacedAt(i, "open_current") \/ RacedAt(i, "open_baseline")) =>
                    IF content \in {Absent, Malformed}
                    THEN /\ EndsInError(i)
                         /\ log'.last.outcome =
                               IF content = Absent THEN "IOError" ELSE "ParseError"
                    ELSE /\ Len(active') = Len(active)
                         /\ log' = log
                         /\ content = EmptyFile =>
                               DocNone \in {active'[i].current_config,
                                            active'[i].baseline_config}]_vars
    /\ [][\A i \in DOMAIN active :
            (/\ CheckStep
             /\ RacedAt(i, "diff")
             /\ active[i].current_config = DocNone
             /\ active[i].baseline_config # DocNone) =>
                /\ CheckEnds(i)
                /\ log'.count = log.count + 1
                /\ log'.last.level = "warning"
                /\ log'.last.outcome = "Drifted"]_vars
    /\ [][(/\ edits > 0
           /\ log.last.level = "error"
           /\ DispatchStep
           /\ Head(queue) = [is_directory |-> FALSE, src_path |-> log.last.filepath]) =>
              StartedCheckFor(log.last.filepath)]_vars

\* the baseline of /etc/app.conf was there at the existence test and gone
\* at the open: the check has written an IOError record after opening both
\* files, and the next notification has started a new check
C19_Witness ==
    /\ log.count = 1
    /\ log.last.filepath = PathApp
    /\ log.last.level = "error"
    /\ log.last.outcome = "IOError"
    /\ log.last.opened = {"current", "baseline"}
    /\ baseline[config_files[PathApp]] = Absent
    /\ threadAlive
    /\ Len(active) = 1
    /\ active[1].filepath = PathApp

====
